---- MODULE Spec2Model ----
(***************************************************************************)
(* Model of rehexed (src/src/lib.rs): the per-vertex neighbour-ordering    *)
(* state machine `insert`, the driver loop over the triangle list, the     *)
(* self-adjacency check and the conversion to fixed 6-slot arrays.         *)
(***************************************************************************)
EXTENDS Integers, Sequences, FiniteSets, TLC

(* ------------------------------ bounds -------------------------------- *)

\* `len`: the number of vertices the caller passes.
NumVerts == 7

\* Largest number of triangles in an arbitrary input list (Spec).
MaxChunks == 4

\* Corners b, c of the arbitrary triangles (0, b, c) range over 0..MaxNbr.
MaxNbr == 2

(* ------------------------- program constants -------------------------- *)

\* Capacity of ArrayVec<usize, 6>.
Cap == 6

\* usize::MAX, the padding of the output arrays (any value that is no index).
UsizeMax == 2147483647

Verts == 0 .. (NumVerts - 1)

RehexState == {"Empty", "Clear", "TwoTwo", "ThreeTwo", "TwoTwoTwo", "Complete"}

(* --------------------------- ArrayVec helpers ------------------------- *)

\* result[i], 0-based.
At(r, i) == r[i + 1]

\* InsertAt overwriting the element at i instead of shifting it.
InsertAtOverwrite(r, i, x) ==
    IF i < Len(r) THEN [r EXCEPT ![i + 1] = x] ELSE r \o <<x>>

\* ArrayVec::insert(i, x), 0-based; the caller checks capacity and i <= len.
InsertAt(r, i, x) == SubSeq(r, 1, i) \o <<x>> \o SubSeq(r, i + 1, Len(r))

\* Pop that removes nothing.
PopKeeps(r) == r

\* ArrayVec::pop, value dropped.
Pop(r) == SubSeq(r, 1, Len(r) - 1)

\* ArrayVec::swap_remove(i), 0-based: the last element takes the place of i.
SwapRemove(r, i) ==
    IF i = Len(r) - 1 THEN Pop(r)
    ELSE Pop([r EXCEPT ![i + 1] = r[Len(r)]])

\* Outcome of one arm of the match: the new state and list, or a panic.
Ok(st, r) == [state |-> st, result |-> r, fault |-> "none"]

Panic(st, r, f) == [state |-> st, result |-> r, fault |-> f]

\* result.extend([b, c]) followed by the state assignment.
ExtendTo(st, old, r, b, c) ==
    IF Len(r) + 2 > Cap THEN Panic(old, r, "capacity")
    ELSE Ok(st, r \o <<b, c>>)

\* result.insert(i, x) followed by the state assignment.
InsertTo(st, old, r, i, x) ==
    IF i > Len(r) THEN Panic(old, r, "index")
    ELSE IF Len(r) >= Cap THEN Panic(old, r, "capacity")
    ELSE Ok(st, InsertAt(r, i, x))

(* ------------------------- the arms of insert ------------------------- *)

\* ArmEmpty without the assignment of Clear.
ArmEmptyStays(r, b, c) == ExtendTo("Empty", "Empty", r, b, c)

ArmEmpty(r, b, c) == ExtendTo("Clear", "Empty", r, b, c)

\* ClearGrown without the test for six elements.
ClearGrownUnchecked(o) == o

\* After a push or insert(0, ..) in Clear: Complete once six are known.
ClearGrown(o) ==
    IF o.fault = "none" /\ Len(o.result) = 6
    THEN [o EXCEPT !.state = "Complete"]
    ELSE o

\* ArmClear appending c also when the fact closes the cycle.
ArmClearRepeats(r, b, c) ==
    IF Len(r) = 0 THEN Panic("Clear", r, "index")
    ELSE IF At(r, Len(r) - 1) = b THEN
        IF At(r, 0) = c
        THEN [InsertTo("Clear", "Clear", r, Len(r), c) EXCEPT !.state = "Complete"]
        ELSE ClearGrown(InsertTo("Clear", "Clear", r, Len(r), c))
    ELSE IF At(r, 0) = c THEN
        ClearGrown(InsertTo("Clear", "Clear", r, 0, b))
    ELSE IF Len(r) = 2 THEN ExtendTo("TwoTwo", "TwoTwo", r, b, c)
    ELSE IF Len(r) = 3 THEN ExtendTo("ThreeTwo", "ThreeTwo", r, b, c)
    ELSE IF Len(r) = 4 THEN ExtendTo("Complete", "Complete", r, b, c)
    ELSE Panic("Clear", r, "unreachable")

ArmClear(r, b, c) ==
    IF Len(r) = 0 THEN Panic("Clear", r, "index")
    ELSE IF At(r, Len(r) - 1) = b THEN
        IF At(r, 0) = c THEN Ok("Complete", r)
        ELSE ClearGrown(InsertTo("Clear", "Clear", r, Len(r), c))
    ELSE IF At(r, 0) = c THEN
        ClearGrown(InsertTo("Clear", "Clear", r, 0, b))
    ELSE IF Len(r) = 2 THEN ExtendTo("TwoTwo", "TwoTwo", r, b, c)
    ELSE IF Len(r) = 3 THEN ExtendTo("ThreeTwo", "ThreeTwo", r, b, c)
    ELSE IF Len(r) = 4 THEN ExtendTo("Complete", "Complete", r, b, c)
    ELSE Panic("Clear", r, "unreachable")

ArmTwoTwo(r, b, c) ==
    IF Len(r) < 2 THEN Panic("TwoTwo", r, "index")
    ELSE IF At(r, 1) = b THEN
        IF Len(r) < 3 THEN Panic("TwoTwo", r, "index")
        ELSE IF At(r, 2) = c THEN Ok("Clear", r)
        ELSE InsertTo("ThreeTwo", "TwoTwo", r, 2, c)
    ELSE IF At(r, 0) = c THEN
        IF Len(r) < 4 THEN Panic("TwoTwo", r, "index")
        ELSE IF At(r, 3) = b THEN
            LET temp == At(r, 2)
                r2 == Pop(Pop(r))
            IN  Ok("Clear", InsertAt(InsertAt(r2, 0, temp), 1, b))
        ELSE InsertTo("ThreeTwo", "TwoTwo", r, 0, b)
    ELSE IF Len(r) < 3 THEN Panic("TwoTwo", r, "index")
    ELSE IF At(r, 2) = c THEN
        IF Len(r) >= Cap THEN Panic("TwoTwo", r, "capacity")
        ELSE
            LET r1 == InsertAt(r, 0, b)
                t2 == At(r1, 2)
                r2 == SwapRemove(r1, 2)
                t1 == At(r2, 1)
                r3 == SwapRemove(r2, 1)
            IN  Ok("ThreeTwo", r3 \o <<t1, t2>>)
    ELSE ExtendTo("TwoTwoTwo", "TwoTwo", r, b, c)

ArmThreeTwo(r, b, c) ==
    IF Len(r) < 3 THEN Panic("ThreeTwo", r, "index")
    ELSE IF At(r, 2) = b THEN
        IF Len(r) < 4 THEN Panic("ThreeTwo", r, "index")
        ELSE IF At(r, 3) = c THEN Ok("Clear", r)
        ELSE InsertTo("Complete", "ThreeTwo", r, 3, c)
    ELSE IF Len(r) < 5 THEN Panic("ThreeTwo", r, "index")
    ELSE IF At(r, 4) = b THEN
        LET temp == At(Pop(r), Len(r) - 2)
            r2 == Pop(Pop(r))
        IN  Ok("Clear", InsertAt(InsertAt(r2, 0, b), 0, temp))
    ELSE InsertTo("Complete", "ThreeTwo", r, 0, b)

\* ArmTwoTwoTwo without the reordering of the last two arcs.
ArmTwoTwoTwoNoReorder(r, b, c) ==
    IF Len(r) < 6 THEN Panic("TwoTwoTwo", r, "index")
    ELSE Ok("Complete", r)

ArmTwoTwoTwo(r, b, c) ==
    IF Len(r) < 6 THEN Panic("TwoTwoTwo", r, "index")
    ELSE IF /\ (At(r, 1) # b \/ At(r, 2) # c)
            /\ (At(r, 3) # b \/ At(r, 4) # c)
            /\ (At(r, 5) # b \/ At(r, 0) # c)
    THEN
        LET t2 == At(r, 3)
            r1 == SwapRemove(r, 3)
            t1 == At(r1, 2)
            r2 == SwapRemove(r1, 2)
        IN  Ok("Complete", r2 \o <<t1, t2>>)
    ELSE Ok("Complete", r)

\* The match on the state of one accumulator (Complete returned earlier).
Arm(st, r, b, c) ==
    CASE st = "Empty"     -> ArmEmpty(r, b, c)
      [] st = "Clear"     -> ArmClear(r, b, c)
      [] st = "TwoTwo"    -> ArmTwoTwo(r, b, c)
      [] st = "ThreeTwo"  -> ArmThreeTwo(r, b, c)
      [] st = "TwoTwoTwo" -> ArmTwoTwoTwo(r, b, c)
      [] OTHER            -> Panic(st, r, "unreachable")

\* Accumulate without the early return: Complete handled like Clear.
AccumulateNoReturn(st, r, b, c) ==
    Arm(IF st = "Complete" THEN "Clear" ELSE st, r, b, c)

\* insert on one accumulator: a no-op once Complete.
Accumulate(st, r, b, c) ==
    IF st = "Complete" THEN Ok(st, r) ELSE Arm(st, r, b, c)

\* The closure insert(a, b, c) on the vectors `state` and `result`.
insert(S, R, a, b, c) ==
    IF a \notin DOMAIN S THEN Panic(S, R, "index")
    ELSE LET o == Accumulate(S[a], R[a], b, c)
         IN  [state  |-> [S EXCEPT ![a] = o.state],
              result |-> [R EXCEPT ![a] = o.result],
              fault  |-> o.fault]

\* Body with the second insertion as insert(c, b, a).
BodySwapped(S, R, t) ==
    LET o1 == insert(S, R, t[1], t[2], t[3])
    IN  IF o1.fault # "none" THEN o1
        ELSE LET o2 == insert(o1.state, o1.result, t[3], t[2], t[1])
             IN  IF o2.fault # "none" THEN o2
                 ELSE insert(o2.state, o2.result, t[2], t[3], t[1])

\* The loop body for one chunk (a, b, c): three insertions, the first panic
\* ends the call.
Body(S, R, t) ==
    LET o1 == insert(S, R, t[1], t[2], t[3])
    IN  IF o1.fault # "none" THEN o1
        ELSE LET o2 == insert(o1.state, o1.result, t[3], t[1], t[2])
             IN  IF o2.fault # "none" THEN o2
                 ELSE insert(o2.state, o2.result, t[2], t[3], t[1])

\* Contains looking at the first element only.
ContainsFirst(r, x) == Len(r) > 0 /\ r[1] = x

\* around.contains(&idx)
Contains(r, x) == \E i \in 1 .. Len(r) : r[i] = x

\* Padded with 0 in place of usize::MAX.
PaddedZero(r) == [i \in 1 .. 6 |-> IF i <= Len(r) THEN r[i] ELSE 0]

\* The 6-slot array of one accumulator.
Padded(r) == [i \in 1 .. 6 |-> IF i <= Len(r) THEN r[i] ELSE UsizeMax]

(* ------------------------------- inputs -------------------------------- *)

\* A closed, consistently wound fan of k triangles around vertex 0.
Fan(k) == {<<0, i, (i % k) + 1>> : i \in 1 .. k}

\* Arbitrary (also degenerate and repeated) triangles with a corner 0.
Triangles == {<<0, b, c>> : b \in 0 .. MaxNbr, c \in 0 .. MaxNbr}

(* -------------------------------- state -------------------------------- *)

VARIABLES
    state,      \* state[v]: the RehexState of vertex v
    result,     \* result[v]: the ArrayVec of vertex v
    unread,     \* the triangles the rest of the input list is drawn from
    count,      \* chunks scanned so far
    chunk,      \* the chunk of the last loop iteration (<<>> before the first)
    pc,         \* "scan", "check", "collect", "returned", "panicked"
    fault,      \* why the call panicked ("none" if it did not)
    culprit,    \* the idx of the self-adjacency panic message (-1 if none)
    output      \* the returned Vec<[usize; 6]> (<<>> until returned)

vars == <<state, result, unread, count, chunk, pc, fault, culprit, output>>

InitCommon ==
    /\ state = [v \in Verts |-> "Empty"]
    /\ result = [v \in Verts |-> <<>>]
    /\ count = 0
    /\ chunk = <<>>
    /\ pc = "scan"
    /\ fault = "none"
    /\ culprit = -1
    /\ output = <<>>

\* Any list of at most MaxChunks triangles of Triangles.
Init == InitCommon /\ unread = Triangles

\* Any ordering of a closed fan of 5 or 6 triangles (or of a part of it).
InitFan == InitCommon /\ unread \in {Fan(5), Fan(6)}

\* One iteration of the loop over chunks_exact(3).
Iterate(t) ==
    LET o == Body(state, result, t)
    IN  /\ state' = o.state
        /\ result' = o.result
        /\ fault' = o.fault
        /\ pc' = IF o.fault = "none" THEN "scan" ELSE "panicked"
        /\ chunk' = t
        /\ count' = count + 1
        /\ UNCHANGED <<culprit, output>>

Scan ==
    /\ pc = "scan"
    /\ count < MaxChunks
    /\ \E t \in unread : Iterate(t)
    /\ UNCHANGED unread

ScanFan ==
    /\ pc = "scan"
    /\ \E t \in unread : Iterate(t) /\ unread' = unread \ {t}

\* The list is exhausted: drop(insert).
EndScan ==
    /\ pc = "scan"
    /\ pc' = "check"
    /\ UNCHANGED <<state, result, unread, count, chunk, fault, culprit, output>>

\* Check panicking also for a vertex left in an intermediate state.
CheckStrict ==
    /\ pc = "check"
    /\ LET bad == {v \in Verts : Contains(result[v], v)
                                  \/ state[v] \notin {"Empty", "Complete"}}
       IN  IF bad = {}
           THEN /\ pc' = "collect"
                /\ UNCHANGED <<fault, culprit>>
           ELSE /\ pc' = "panicked"
                /\ fault' = "self"
                /\ culprit' = CHOOSE v \in bad : \A w \in bad : v <= w
    /\ UNCHANGED <<state, result, unread, count, chunk, output>>

\* The loop looking for a vertex that lists itself.
Check ==
    /\ pc = "check"
    /\ LET bad == {v \in Verts : Contains(result[v], v)}
       IN  IF bad = {}
           THEN /\ pc' = "collect"
                /\ UNCHANGED <<fault, culprit>>
           ELSE /\ pc' = "panicked"
                /\ fault' = "self"
                /\ culprit' = CHOOSE v \in bad : \A w \in bad : v <= w
    /\ UNCHANGED <<state, result, unread, count, chunk, output>>

\* into_iter().map(..).collect()
Collect ==
    /\ pc = "collect"
    /\ output' = [i \in 1 .. NumVerts |-> Padded(result[i - 1])]
    /\ pc' = "returned"
    /\ UNCHANGED <<state, result, unread, count, chunk, fault, culprit>>

Next == Scan \/ EndScan \/ Check \/ Collect

NextFan == ScanFan \/ EndScan \/ Check \/ Collect

Spec == Init /\ [][Next]_vars

SpecFan == InitFan /\ [][NextFan]_vars

(* ------------------------ vocabulary of the claims --------------------- *)

\* The real neighbours of a returned 6-slot array: its slots that are not
\* the padding value, in order.
Real(o) == SelectSeq(o, LAMBDA x : x # UsizeMax)

\* c directly follows b in l, the slot after the last being the first.
FollowsCyc(l, b, c) ==
    \E i \in 1 .. Len(l) : l[i] = b /\ l[(i % Len(l)) + 1] = c

\* l is m started at another slot.
IsRotation(l, m) ==
    /\ Len(l) = Len(m)
    /\ \/ Len(l) = 0
       \/ \E k \in 0 .. (Len(l) - 1) :
              \A i \in 1 .. Len(l) : l[i] = m[((i + k - 1) % Len(l)) + 1]

\* The triangles of a fan of k in fan order, and the accumulators after a
\* scan of a whole list.
FanList(k) == [i \in 1 .. k |-> <<0, i, (i % k) + 1>>]

RECURSIVE ScanAll(_, _, _)
ScanAll(S, R, list) ==
    IF list = <<>> THEN Ok(S, R)
    ELSE LET o == Body(S, R, Head(list))
         IN  IF o.fault # "none" THEN o ELSE ScanAll(o.state, o.result, Tail(list))

\* A whole fan of 5 or 6 has been scanned, in some order.
FanScanned == unread = {} /\ count \in {5, 6}

FanReturned == FanScanned /\ pc = "returned"

(* -------------------------------- claims ------------------------------- *)

\* C1: winding preservation. When rehexed returns for a closed fan of 5 or 6
\* triangles around vertex 0 given in any order, the list returned for vertex
\* 0 holds, for every triangle (0, b, c) of the fan, b directly followed by c
\* (cyclically over the real neighbours).
C1_WindingPreserved ==
    FanReturned =>
        \A t \in Fan(count) : FollowsCyc(Real(output[1]), t[2], t[3])

\* C2: order-independence. Whatever the order of the fan's triangles, the
\* list returned for vertex 0 is a rotation of the list returned for the fan
\* given in fan order (which is 1, 2, .., k).
C2_OrderIndependent ==
    FanReturned =>
        IsRotation(Real(output[1]),
                   Real(Padded(ScanAll([v \in Verts |-> "Empty"],
                                       [v \in Verts |-> <<>>],
                                       FanList(count)).result[0])))

\* Every insertion of a whole fan of 5 or 6 has been attempted: the scan
\* reached the end of the list, or an insertion panicked on the way.
FanOver == FanScanned \/ (pc = "panicked" /\ count \in 1 .. 6)

\* C3: closure. For a fan of 5 or 6 triangles around vertex 0 in any order,
\* the scan gets through every insertion and leaves vertex 0 Complete with a
\* list of 5 or 6 neighbours.
C3_Closure ==
    FanOver =>
        (pc # "panicked" /\ state[0] = "Complete" /\ Len(result[0]) \in {5, 6})

\* The arcs the state says the list holds, as sets of (position, next
\* position) pairs: one arc in Clear, 2+2 in TwoTwo, 3+2 in ThreeTwo, 2+2+2
\* in TwoTwoTwo, and one closed cycle in Complete.
Links(st, r) ==
    CASE st = "Clear"     -> {<<i, i + 1>> : i \in 1 .. (Len(r) - 1)}
      [] st = "TwoTwo"    -> {<<1, 2>>, <<3, 4>>}
      [] st = "ThreeTwo"  -> {<<1, 2>>, <<2, 3>>, <<4, 5>>}
      [] st = "TwoTwoTwo" -> {<<1, 2>>, <<3, 4>>, <<5, 6>>}
      [] st = "Complete"  -> {<<i, (i % Len(r)) + 1>> : i \in 1 .. Len(r)}
      [] OTHER            -> {}

\* The accumulator records that c directly follows b.
Records(st, r, b, c) ==
    \E l \in Links(st, r) :
        /\ l[1] \in 1 .. Len(r) /\ l[2] \in 1 .. Len(r)
        /\ r[l[1]] = b /\ r[l[2]] = c

\* C4: insert records its fact. Whenever a triangle (0, b, c) of a fan of 5 or
\* 6 distinct neighbours is scanned while vertex 0 is not Complete, vertex 0's
\* list afterwards holds c directly after b, within one arc or, when the step
\* completes the cycle, from its last element round to its first.
C4_InsertRecords ==
    [][(pc = "scan" /\ pc' = "scan" /\ count' = count + 1
            /\ state[0] # "Complete")
        => Records(state'[0], result'[0], chunk'[2], chunk'[3])]_vars

\* C5: sentinel correctness. In any order, a fan of 5 yields for vertex 0 five
\* vertex indices followed by usize::MAX, and a fan of 6 yields six vertex
\* indices.
C5_Sentinel ==
    FanReturned =>
        /\ \A i \in 1 .. 5 : output[1][i] \in Verts
        /\ count = 5 => output[1][6] = UsizeMax
        /\ count = 6 => output[1][6] \in Verts

\* The elements of a list.
Elems(l) == {l[i] : i \in DOMAIN l}

\* C6: no self-loop. rehexed never returns a list for v that contains v; the
\* steps after the self-adjacency check are reached only if no vertex lists
\* itself, and a self-adjacency panic names a vertex that lists itself and
\* leaves nothing returned.
C6_NoSelfLoop ==
    /\ pc = "returned" =>
          \A v \in Verts : v \notin Elems(output[v + 1])
    /\ pc \in {"collect", "returned"} =>
          \A v \in Verts : v \notin Elems(result[v])
    /\ fault = "self" =>
          /\ pc = "panicked"
          /\ output = <<>>
          /\ culprit \in Verts
          /\ culprit \in Elems(result[culprit])
    /\ pc = "panicked" => output = <<>>

\* C6 witness: the call has panicked on a vertex that lists itself.
C6_Witness == pc = "panicked" /\ fault = "self" /\ culprit \in Verts

\* C7 as claimed: rehexed returns an adjacency array only if every vertex is
\* Complete at the end of the scan.
C7_IncompleteIsError ==
    pc = "returned" => \A v \in Verts : state[v] = "Complete"

\* C7 as amended: a vertex that is not Complete at the end of the scan is not
\* an error. If no vertex lists itself the check passes without a fault, and
\* the call then returns, for every vertex whatever its state, its list padded
\* to six slots with usize::MAX.
C7_IncompleteReturned ==
    [][/\ (pc = "check" /\ (\A v \in Verts : v \notin Elems(result[v])))
            => (pc' = "collect" /\ fault' = "none")
       /\ pc = "collect"
            => /\ pc' = "returned"
               /\ \A v \in Verts :
                     /\ SubSeq(output'[v + 1], 1, Len(result[v])) = result[v]
                     /\ \A i \in (Len(result[v]) + 1) .. 6 :
                           output'[v + 1][i] = UsizeMax]_vars

\* C7 witness: the call has returned although some vertex is neither
\* untouched nor Complete.
C7_Witness ==
    pc = "returned" /\ \E v \in Verts : state[v] \in {"Clear", "TwoTwo", "ThreeTwo", "TwoTwoTwo"}

\* C8: Complete is absorbing. No step changes the state or the list of a
\* vertex that is Complete, whatever triangles are scanned.
C8_CompleteAbsorbing ==
    [][\A v \in Verts :
          state[v] = "Complete" =>
              (state'[v] = "Complete" /\ result'[v] = result[v])]_vars

\* C8 witness: after (0,1,2) and (0,2,1) vertex 0 is Complete with [1, 2]; the
\* third chunk (0,2,2) inserts the fact (2, 2) centered on it, which would
\* have extended a Clear [1, 2].
C8_Witness ==
    /\ count = 3
    /\ chunk = <<0, 2, 2>>
    /\ state[0] = "Complete"
    /\ result[0] = <<1, 2>>

\* C9: capacity. No list ever holds more than 6 elements and no insertion
\* panics for lack of capacity.
C9_Capacity ==
    /\ \A v \in Verts : Len(result[v]) <= 6
    /\ fault # "capacity"

\* C9 witness: four chunks (0,1,2) take vertex 0 through TwoTwo and TwoTwoTwo
\* to a full list, the fourth insertion reordering the six elements in place.
C9_Witness ==
    /\ count = 4
    /\ chunk = <<0, 1, 2>>
    /\ state[0] = "Complete"
    /\ result[0] = <<1, 2, 1, 2, 1, 2>>

\* C10: output shape. The returned vector has one 6-slot entry per vertex;
\* entry v is v's list, in order, followed by usize::MAX in every remaining
\* slot; a vertex no triangle names gets six usize::MAX.
C10_OutputShape ==
    pc = "returned" =>
        /\ Len(output) = NumVerts
        /\ \A v \in Verts :
              /\ Len(output[v + 1]) = 6
              /\ Len(result[v]) <= 6
              /\ \A i \in 1 .. 6 :
                    output[v + 1][i] =
                        IF i <= Len(result[v]) THEN result[v][i] ELSE UsizeMax
              /\ v > MaxNbr => \A i \in 1 .. 6 : output[v + 1][i] = UsizeMax

\* C10 witness: returned with a partly filled list for vertex 0 and an
\* untouched last vertex.
C10_Witness ==
    /\ pc = "returned"
    /\ Len(result[0]) \in 1 .. 5
    /\ result[NumVerts - 1] = <<>>

\* A step that scans one more triangle (0, b, c) of the fan: the insertion
\* centered on vertex 0 is Insert(0, chunk'[2], chunk'[3]).
FanStep == pc = "scan" /\ count' = count + 1

\* C11: totality on valid fans. Scanning a fan of 5 or 6 around vertex 0, in
\* any order, no insertion panics; in particular the unreachable!() arm of
\* Clear is never executed.
C11_Totality == fault = "none" /\ pc # "panicked"

\* C12: the third arc. Insert(b, c) takes vertex 0 from TwoTwo with arcs
\* [p,q], [r,s] to TwoTwoTwo only if b is neither q nor s and c is neither p
\* nor r, and the list then holds 6 distinct elements.
C12_ThirdArc ==
    [][(FanStep /\ state[0] = "TwoTwo" /\ state'[0] = "TwoTwoTwo")
        => /\ chunk'[2] \notin {result[0][2], result[0][4]}
           /\ chunk'[3] \notin {result[0][1], result[0][3]}
           /\ Cardinality(Elems(result'[0])) = 6]_vars

\* C13: ThreeTwo. With arcs [x,y,z], [p,q], Insert(b, c) leads to Clear only
\* when it closes a gap (b = z and c = p, or b = q and c = x), giving one arc
\* of 5 in which c directly follows b; any other fact leads to Complete with
\* 6 elements, the new element next to the endpoint it matches (c directly
\* after b in the list).
C13_ThreeTwo ==
    [][(FanStep /\ state[0] = "ThreeTwo" /\ Len(result[0]) = 5)
        => LET r == result[0]
               b == chunk'[2]
               c == chunk'[3]
           IN  IF (b = r[3] /\ c = r[4]) \/ (b = r[5] /\ c = r[1])
               THEN /\ state'[0] = "Clear"
                    /\ Len(result'[0]) = 5
                    /\ Records("Clear", result'[0], b, c)
               ELSE /\ state'[0] = "Complete"
                    /\ Len(result'[0]) = 6
                    /\ \E i \in 1 .. 5 :
                          result'[0][i] = b /\ result'[0][i + 1] = c]_vars

\* The list TwoTwoTwo resolves to on Insert(b, c): unchanged when (b, c) is
\* one of the junctions (q,r), (s,t), (u,p) of [p,q,r,s,t,u], and
\* [p,q,t,u,r,s] otherwise.
Resolved(r, b, c) ==
    IF <<b, c>> \in {<<r[2], r[3]>>, <<r[4], r[5]>>, <<r[6], r[1]>>}
    THEN r
    ELSE <<r[1], r[2], r[5], r[6], r[3], r[4]>>

\* Vertex 0 is in TwoTwoTwo with three pairwise disjoint arcs.
Disjoint222 ==
    /\ state[0] = "TwoTwoTwo"
    /\ Len(result[0]) = 6
    /\ Cardinality(Elems(result[0])) = 6

\* C14: TwoTwoTwo resolution. From TwoTwoTwo with pairwise disjoint arcs any
\* Insert(b, c) leads to Complete with the list Resolved(r, b, c); every
\* insertion of a fan triangle so resolved leaves the fan's cycle 1..6 up to
\* rotation.
C14_Resolution ==
    /\ [](Disjoint222 =>
            \A b, c \in Verts :
                Accumulate("TwoTwoTwo", result[0], b, c)
                    = Ok("Complete", Resolved(result[0], b, c)))
    /\ [][(FanStep /\ Disjoint222)
            => /\ state'[0] = "Complete"
               /\ result'[0] = Resolved(result[0], chunk'[2], chunk'[3])
               /\ IsRotation(result'[0], <<1, 2, 3, 4, 5, 6>>)]_vars

\* C14 witness: the arcs [3,4], [1,2], [5,6] arrived in this order and the
\* fourth fact (2, 3), no junction of [3,4,1,2,5,6], resolved them (six
\* elements after four insertions ending in (2, 3) at the far ends of the list
\* arise from TwoTwoTwo only).
C14_Witness ==
    /\ count = 4
    /\ chunk = <<0, 2, 3>>
    /\ state[0] = "Complete"
    /\ result[0] = <<3, 4, 5, 6, 1, 2>>

\* C15: cycle closure in Clear. When vertex 0 is Clear and the fact (b, c) has
\* b equal to the last and c equal to the first element of its list, the
\* insertion makes it Complete and leaves the list as it is.
C15_ClearCloses ==
    /\ [](\A v \in Verts :
            (state[v] = "Clear" /\ Len(result[v]) > 0) =>
                Accumulate("Clear", result[v],
                           result[v][Len(result[v])], result[v][1])
                    = Ok("Complete", result[v]))
    /\ [][(/\ FanStep
        /\ state[0] = "Clear"
        /\ Len(result[0]) > 0
        /\ result[0][Len(result[0])] = chunk'[2]
        /\ result[0][1] = chunk'[3])
        => /\ state'[0] = "Complete"
           /\ result'[0] = result[0]
           /\ fault' = "none"]_vars

\* C15 witness: the pentagon fan in fan order; its last fact (5, 1) closes
\* the Clear list [1,2,3,4,5], which keeps its 5 elements.
C15_Witness ==
    /\ count = 5
    /\ unread = {}
    /\ chunk = <<0, 5, 1>>
    /\ state[0] = "Complete"
    /\ result[0] = <<1, 2, 3, 4, 5>>

\* The three insertions of a triangle (a, b, c), in the order they are made:
\* <<center, first, second>>.
Insertions(t) ==
    << <<t[1], t[2], t[3]>>, <<t[3], t[1], t[2]>>, <<t[2], t[3], t[1]>> >>

\* One insertion seen from vertex v alone: it acts on v's accumulator if it
\* is centered on v, and not at all otherwise.
Alone(acc, v, f) ==
    IF f[1] = v /\ acc.fault = "none"
    THEN Accumulate(acc.state, acc.result, f[2], f[3])
    ELSE acc

\* The accumulator of v after the triangle t, from v's accumulator alone.
AloneAfter(v, t) ==
    Alone(Alone(Alone(Ok(state[v], result[v]), v, Insertions(t)[1]),
                v, Insertions(t)[2]),
          v, Insertions(t)[3])

\* C16: per-vertex isolation. A chunk (a, b, c) acts as Insert(a,b,c), then
\* Insert(c,a,b), then Insert(b,c,a); the state and list of every vertex
\* after the chunk are what those of the three that are centered on it make
\* of its own state and list, so a vertex that is no corner is unchanged.
C16_Isolation ==
    [][(pc = "scan" /\ count' = count + 1)
        => /\ \A v \in Verts \ {chunk'[1], chunk'[2], chunk'[3]} :
                 state'[v] = state[v] /\ result'[v] = result[v]
           /\ pc' = "scan" =>
                 \A v \in Verts :
                    /\ state'[v] = AloneAfter(v, chunk').state
                    /\ result'[v] = AloneAfter(v, chunk').result]_vars

\* C16 witness: the chunk (0,1,2) has given vertex 0 the fact (1,2), vertex 2
\* the fact (0,1) and vertex 1 the fact (2,0), and a second chunk (0,0,1) has
\* given vertex 0 the facts (0,1) and then (1,0), each prepended to its list.
C16_Witness ==
    /\ count = 2
    /\ chunk = <<0, 0, 1>>
    /\ result[2] = <<0, 1>>
    /\ result[1] = <<2, 0, 0>>
    /\ result[0] = <<1, 0, 1, 2>>

\* C17: state/length invariant. Empty goes with length 0, Clear with 2 to 5,
\* TwoTwo with 4, ThreeTwo with 5 and TwoTwoTwo with 6, so that no insertion
\* reads a position outside its list.
C17_StateLength ==
    /\ \A v \in Verts :
          /\ state[v] \in RehexState
          /\ state[v] = "Empty" => Len(result[v]) = 0
          /\ state[v] = "Clear" => Len(result[v]) \in 2 .. 5
          /\ state[v] = "TwoTwo" => Len(result[v]) = 4
          /\ state[v] = "ThreeTwo" => Len(result[v]) = 5
          /\ state[v] = "TwoTwoTwo" => Len(result[v]) = 6
    /\ fault # "index"

\* C17 witness: three chunks (0,1,2) have taken vertices 0, 1 and 2 through
\* Clear (read at its ends) and TwoTwo (read at positions 0 to 2) into
\* TwoTwoTwo with six elements each.
C17_Witness ==
    /\ count = 3
    /\ state[0] = "TwoTwoTwo"
    /\ result[0] = <<1, 2, 1, 2, 1, 2>>
    /\ state[1] = "TwoTwoTwo"
    /\ state[2] = "TwoTwoTwo"
    /\ fault = "none"

\* The transitions one insertion may make.
Edges ==
    {<<"Empty", "Clear">>,
     <<"Clear", "Clear">>, <<"Clear", "TwoTwo">>, <<"Clear", "ThreeTwo">>,
     <<"Clear", "Complete">>,
     <<"TwoTwo", "Clear">>, <<"TwoTwo", "ThreeTwo">>, <<"TwoTwo", "TwoTwoTwo">>,
     <<"ThreeTwo", "Clear">>, <<"ThreeTwo", "Complete">>,
     <<"TwoTwoTwo", "Complete">>,
     <<"Complete", "Complete">>}

\* s leads to t by k transitions of Edges (k up to 3).
Path(k, s, t) ==
    CASE k = 0 -> s = t
      [] k = 1 -> <<s, t>> \in Edges
      [] k = 2 -> \E m \in RehexState : <<s, m>> \in Edges /\ <<m, t>> \in Edges
      [] OTHER -> \E m, n \in RehexState :
                     <<s, m>> \in Edges /\ <<m, n>> \in Edges /\ <<n, t>> \in Edges

\* How many of the three insertions of the triangle t are centered on v.
Hits(v, t) == Cardinality({i \in 1 .. 3 : t[i] = v})

\* C18: transition graph. No step takes a vertex back to Empty, and a chunk
\* scanned without a panic moves every vertex along one edge of Edges per
\* insertion centered on it (so a vertex with one insertion leaves Empty,
\* TwoTwo, ThreeTwo and TwoTwoTwo, and a vertex with none stays).
C18_Transitions ==
    [][/\ \A v \in Verts : state[v] # "Empty" => state'[v] # "Empty"
       /\ (pc = "scan" /\ count' = count + 1 /\ pc' = "scan")
            => \A v \in Verts :
                  Path(Hits(v, chunk'), state[v], state'[v])]_vars

\* C18 witness: vertex 0 has gone Empty, Clear, TwoTwo, Clear, Complete on
\* the facts (1,2), (1,2), (2,1), (2,1), one per chunk.
C18_Witness ==
    /\ count = 4
    /\ chunk = <<0, 2, 1>>
    /\ state[0] = "Complete"
    /\ result[0] = <<1, 2, 1, 2>>

\* How often x occurs in l.
Occ(l, x) == Cardinality({i \in DOMAIN l : l[i] = x})

\* C19: no recorded neighbour is lost. No step removes an occurrence of an
\* element from a list: every element occurs in a vertex's list after the
\* step at least as often as before it (so no list gets shorter and the
\* reordering branches only permute).
C19_NothingLost ==
    [][\A v \in Verts :
          /\ Len(result[v]) <= Len(result'[v])
          /\ \A x \in Elems(result[v]) :
                Occ(result[v], x) <= Occ(result'[v], x)]_vars

\* C19 witness: the reordering branches have run on vertex 0. The chunks
\* (0,1,1), (0,0,2), (0,1,1) give it [1,1], then (0,2) making [1,1 | 0,2],
\* then (2,0), which puts 2 before the second arc and moves that arc to the
\* front ([2,0,2 | 1,1], by insert and two swap_remove), then (1,1), which
\* moves the arc [1,1] to the front (by two pop and two insert).
C19_Witness ==
    /\ count = 3
    /\ chunk = <<0, 1, 1>>
    /\ state[0] = "Clear"
    /\ result[0] = <<1, 1, 2, 0, 2>>

\* C20: no duplicates on valid fans. While a fan of 5 or 6 distinct
\* neighbours around vertex 0 is scanned, in any order, vertex 0's list never
\* holds a vertex index twice.
C20_NoDuplicates ==
    Cardinality(Elems(result[0])) = Len(result[0])

====
